---- MODULE Spec2Model ----
(***************************************************************************)
(* A model of the AudienceForcaster pipeline: the forecast engine          *)
(* (src/src/time_series.py), the loader / preprocessor / feature engineer  *)
(* (src/src/data_processor.py) and the dashboard's Generate Forecast       *)
(* handler (src/app.py).                                                   *)
(*                                                                         *)
(* Each component has its own specification over the shared variables:     *)
(*   SpecEngine   calls of train_model / get_forecast on one engine        *)
(*   SpecLoad     load_data followed by preprocess_data                    *)
(*   SpecFeat     engineer_features                                        *)
(*   SpecMetrics  calculate_metrics                                        *)
(*   SpecE2E      the Generate Forecast handler                            *)
(*   SpecPrep     prepare_for_modeling                                     *)
(***************************************************************************)
EXTENDS Integers, Sequences, FiniteSets, TLC

VARIABLES
    model,        \* TimeSeriesModels.model      (the held model handle)
    model_type,   \* TimeSeriesModels.model_type
    result,       \* outcome of the last engine call (value returned or error raised)
    since_ok,     \* history: what happened to train_model since the last successful fit
    last_ok,      \* history: the handle produced by the last successful fit
    calls,        \* number of engine calls made so far (bounds the run)
    table,        \* the data frame travelling through load / preprocess / features
    stage,        \* position of the data pipeline and where it failed, if it did
    fin,          \* the table handed to engineer_features
    fout,         \* the table returned by engineer_features
    actual,       \* calculate_metrics: actual values
    predicted,    \* calculate_metrics: predicted values
    as_series,    \* calculate_metrics: whether the inputs are pandas Series, not numpy arrays
    metrics,      \* calculate_metrics: the returned bundle
    featured,     \* prepare_for_modeling: the featured table it is given
    target,       \* prepare_for_modeling: the target_platform argument
    prepared,     \* prepare_for_modeling: the frame returned, or the exception
    modeling_df,  \* app.py: the modeling frame of the current script run
    ui            \* app.py: what the Generate Forecast step left on the page

engineVars == <<model, model_type, result, since_ok, last_ok, calls>>
loadVars == <<table, stage>>
featVars == <<fin, fout>>
metricVars == <<actual, predicted, as_series, metrics>>
e2eVars == <<modeling_df, ui>>
prepVars == <<featured, target, prepared>>
vars == <<model, model_type, result, since_ok, last_ok, calls, table, stage,
          fin, fout, actual, predicted, as_series, metrics, featured, target,
          prepared, modeling_df, ui>>

(***************************************************************************)
(* Forecast engine: src/src/time_series.py                                 *)
(***************************************************************************)

\* Bounds of the engine runs.
MaxCalls == 4
MaxObs == 3

Supported == {"ARIMA", "SARIMA", "Prophet"}
ModelTypes == Supported \cup {"LSTM", "arima"}
Horizons == {1, 7, 30, 90}

\* self.model = None; self.model_type = None
NoModel == [kind |-> "None", fitted |-> FALSE, nobs |-> 0, last |-> 0,
            daily |-> FALSE, id |-> 0]
NoType == "None"

\* A modeling frame as the engine sees it: its number of rows, its last
\* timestamp (a day number), whether its index is a run of consecutive days
\* (so that a daily frequency can be inferred), and what is wrong with it:
\*   "bad_series"  the series cannot be used to construct the model
\*                 (the statement that builds the model raises)
\*   "no_fit"      the model is constructed, but fitting it raises
Defects == {"none", "bad_series", "no_fit"}
Frames ==
    [nobs : 2..MaxObs, last : {10}, daily : BOOLEAN, defect : Defects]

Handle(kind, fitted, df, id) ==
    [kind |-> kind, fitted |-> fitted, nobs |-> df.nobs, last |-> df.last,
     daily |-> df.daily, id |-> id]

Returned(op, mt, periods, none, value) ==
    [op |-> op, status |-> "ok", err |-> "", model_type |-> mt,
     periods |-> periods, none |-> none, value |-> value]
Raised(op, mt, periods, err) ==
    [op |-> op, status |-> "raised", err |-> err, model_type |-> mt,
     periods |-> periods, none |-> FALSE, value |-> <<>>]

\* _train_arima / _train_sarima: the model object is stored in self.model
\* before it is fitted, and the fitted results replace it only when fit()
\* returns.  Result: the new self.model and whether the call raised.
train_statespace(kind, held, df, id) ==
    CASE df.defect = "bad_series" -> [model |-> held, raised |-> TRUE]
      [] df.defect = "no_fit" ->
            [model |-> Handle(kind, FALSE, df, id), raised |-> TRUE]
      [] OTHER -> [model |-> Handle(kind, TRUE, df, id), raised |-> FALSE]

train_arima(held, df, id) == train_statespace("ARIMA", held, df, id)
train_sarima(held, df, id) == train_statespace("SARIMA", held, df, id)

\* _train_prophet: the two-column frame is built first (raises on a bad
\* series), then the Prophet object is stored in self.model, then fitted in
\* place.
train_prophet(held, df, id) ==
    CASE df.defect = "bad_series" -> [model |-> held, raised |-> TRUE]
      [] df.defect = "no_fit" ->
            [model |-> Handle("Prophet", FALSE, df, id), raised |-> TRUE]
      [] OTHER -> [model |-> Handle("Prophet", TRUE, df, id), raised |-> FALSE]

\* A faulty variant of train_model: an unknown type falls through to ARIMA.
train_model_default_arima(held, df, mt, id) ==
    LET t == IF mt = "SARIMA" THEN train_sarima(held, df, id)
             ELSE IF mt = "Prophet" THEN train_prophet(held, df, id)
             ELSE train_arima(held, df, id)
    IN [model |-> t.model, model_type |-> mt,
        out |-> IF t.raised THEN Raised("train", mt, 0, "fit failed")
                ELSE Returned("train", mt, 0, FALSE, <<>>)]

\* train_model: records the type, then dispatches on it.
train_model(held, df, mt, id) ==
    IF mt \in Supported
    THEN LET t == CASE mt = "ARIMA" -> train_arima(held, df, id)
                    [] mt = "SARIMA" -> train_sarima(held, df, id)
                    [] OTHER -> train_prophet(held, df, id)
         IN [model |-> t.model, model_type |-> mt,
             out |-> IF t.raised THEN Raised("train", mt, 0, "fit failed")
                     ELSE Returned("train", mt, 0, FALSE, <<>>)]
    ELSE [model |-> held, model_type |-> mt,
          out |-> Raised("train", mt, 0, "Unsupported model type")]

\* One predicted value: its index label (a date, or a position counted from
\* 0), how many steps past the end of the training data it lies (<= 0 for an
\* in-sample fitted row) and the fit that produced it.
Point(kind, v, step, id) == [kind |-> kind, v |-> v, step |-> step, by |-> id]

\* results.forecast(steps=periods) of a fitted ARIMA / SARIMA model: periods
\* step-ahead values, labelled by date when the training index has a
\* frequency and by position otherwise.
statespace_forecast(m, periods) ==
    [i \in 1..periods |->
        IF m.daily THEN Point("date", m.last + i, i, m.id)
        ELSE Point("pos", m.nobs + i - 1, i, m.id)]

\* Prophet: make_future_dataframe(periods) is the history dates followed by
\* periods future dates; predict() returns one row per date of that frame.
prophet_predict(m, periods) ==
    [i \in 1..(m.nobs + periods) |-> Point("pos", i - 1, i - m.nobs, m.id)]

\* DataFrame.tail(n)
tail(s, n) ==
    IF n = 0 THEN <<>>
    ELSE IF n >= Len(s) THEN s
    ELSE SubSeq(s, Len(s) - n + 1, Len(s))

\* A faulty variant of prophet_forecast: the whole prediction is returned.
prophet_forecast_untrimmed(m, periods) == prophet_predict(m, periods)

prophet_forecast(m, periods) == tail(prophet_predict(m, periods), periods)

\* get_forecast
get_forecast(held, mt, periods) ==
    IF held = NoModel
    THEN Raised("forecast", mt, periods, "Model not trained")
    ELSE IF mt \in {"ARIMA", "SARIMA"}
    THEN \* self.model.forecast exists on fitted ARIMA / SARIMA results only
         IF held.kind \in {"ARIMA", "SARIMA"} /\ held.fitted
         THEN Returned("forecast", mt, periods, FALSE,
                       statespace_forecast(held, periods))
         ELSE Raised("forecast", mt, periods, "AttributeError")
    ELSE IF mt = "Prophet"
    THEN IF held.kind # "Prophet"
         THEN Raised("forecast", mt, periods, "AttributeError")
         ELSE IF ~held.fitted
         THEN Raised("forecast", mt, periods, "Model has not been fit")
         ELSE Returned("forecast", mt, periods, FALSE,
                       prophet_forecast(held, periods))
    ELSE \* no branch is taken: the function returns None
         Returned("forecast", mt, periods, TRUE, <<>>)

InitEngine ==
    /\ model = NoModel
    /\ model_type = NoType
    /\ result = Returned("none", NoType, 0, FALSE, <<>>)
    /\ since_ok = "never"
    /\ last_ok = NoModel
    /\ calls = 0
    /\ table = <<>> /\ stage = "idle"
    /\ fin = <<>> /\ fout = <<>>
    /\ actual = <<>> /\ predicted = <<>> /\ as_series = FALSE /\ metrics = <<>>
    /\ modeling_df = <<>> /\ ui = <<>>
    /\ featured = <<>> /\ target = [given |-> FALSE, name |-> ""] /\ prepared = <<>>

\* What the history records after a train_model call with outcome out.
NextSinceOk(out) ==
    IF out.status = "ok" THEN "clean"
    ELSE IF since_ok = "never" THEN "never"
    ELSE IF out.err = "Unsupported model type" /\ since_ok # "raised"
    THEN "unsupported"
    ELSE "raised"

TrainModel ==
    /\ calls < MaxCalls
    /\ \E df \in Frames, mt \in ModelTypes :
          LET r == train_model(model, df, mt, calls + 1) IN
          /\ model' = r.model
          /\ model_type' = r.model_type
          /\ result' = r.out
          /\ since_ok' = NextSinceOk(r.out)
          /\ last_ok' = IF r.out.status = "ok" THEN r.model ELSE last_ok
    /\ calls' = calls + 1
    /\ UNCHANGED <<loadVars, featVars, metricVars, e2eVars, prepVars>>

GetForecast ==
    /\ calls < MaxCalls
    /\ \E periods \in Horizons :
          result' = get_forecast(model, model_type, periods)
    /\ calls' = calls + 1
    /\ UNCHANGED <<model, model_type, since_ok, last_ok>>
    /\ UNCHANGED <<loadVars, featVars, metricVars, e2eVars, prepVars>>

(***************************************************************************)
(* Loader / preprocessor: src/src/data_processor.py                        *)
(***************************************************************************)

\* Bound: the number of rows of an input file.
MaxRows == 3

\* KNNImputer(n_neighbors=5)
n_neighbors == 5

Range(s) == {s[i] : i \in 1..Len(s)}

\* Column names an input file may carry, in file order.  "date" differs from
\* "Date" in case only.
AllCols ==
    <<"Date", "date", "AudienceCount", "Platform", "EngagementRate",
      "ConversionRate", "ForecastError">>
Headers == {SelectSeq(AllCols, LAMBDA c : c \in S) : S \in SUBSET Range(AllCols)}

\* Cells.  A numeric cell is a rational or NaN; a timestamp is a day of
\* January 2024 with an hour, or NaT.
Num(n) == [nan |-> FALSE, num |-> n, den |-> 1]
Rat(n, d) == [nan |-> FALSE, num |-> n, den |-> d]
NaN == [nan |-> TRUE, num |-> 0, den |-> 1]
NaT == [nat |-> TRUE, day |-> 0, hour |-> 0]
Stamp(d, h) == [nat |-> FALSE, day |-> d, hour |-> h]

\* The text of a Date cell: two dates, an empty cell and text that is no date.
DateCells == {"2024-01-06 00:00", "2024-01-05 20:00", "", "soon"}
CountCells == {Num(10), NaN}

\* One parsed row of the file, as a function of the column name.
FileRow(d, a) ==
    [c \in Range(AllCols) |->
        CASE c = "Date" -> d
          [] c = "date" -> "n/a"
          [] c = "AudienceCount" -> a
          [] c = "Platform" -> "Web"
          [] c = "EngagementRate" -> Num(2)
          [] c = "ConversionRate" -> Num(3)
          [] OTHER -> Num(1)]

\* pd.read_csv: the parsed file with header cols; row i carries index label i.
ParsedFile(cols, picks) ==
    [cols |-> cols,
     rows |-> [i \in 1..Len(picks) |->
                 [idx |-> i,
                  cells |-> [k \in 1..Len(cols) |->
                               FileRow(picks[i][1], picks[i][2])[cols[k]]]]]]

RowPicks == UNION {[1..n -> DateCells \X CountCells] : n \in 0..MaxRows}

\* DataFrame.rename(columns=column_mapping)
column_mapping(c) ==
    CASE c = "Date" -> "timestamp"
      [] c = "AudienceCount" -> "audience_count"
      [] c = "Platform" -> "platform"
      [] OTHER -> c
rename(df) == [df EXCEPT !.cols = [k \in 1..Len(df.cols) |-> column_mapping(df.cols[k])]]

required_columns == <<"Date", "AudienceCount", "Platform">>

\* A faulty variant of load_data: the check passes when any required column exists.
load_data_any_column(df) ==
    IF ~(\E i \in 1..Len(required_columns) : required_columns[i] \in Range(df.cols))
    THEN [raised |-> TRUE, err |-> "ValueError", df |-> df]
    ELSE [raised |-> FALSE, err |-> "", df |-> rename(df)]

\* load_data, from the parsed file on: the check of the required columns, then
\* the rename.  Every exception leaves as a ValueError.
load_data(df) ==
    IF ~(\A i \in 1..Len(required_columns) : required_columns[i] \in Range(df.cols))
    THEN [raised |-> TRUE, err |-> "ValueError", df |-> df]
    ELSE [raised |-> FALSE, err |-> "", df |-> rename(df)]

\* Position of column c in df (the first one of that name), 0 when absent.
ColIdx(df, c) ==
    IF c \in Range(df.cols)
    THEN CHOOSE k \in 1..Len(df.cols) :
            df.cols[k] = c /\ \A j \in 1..(k - 1) : df.cols[j] # c
    ELSE 0
Col(df, c) == [i \in 1..Len(df.rows) |-> df.rows[i].cells[ColIdx(df, c)]]

\* df[c] = values: replaces column c, or appends it when df has no such column.
SetCol(df, c, values) ==
    IF c \in Range(df.cols)
    THEN [df EXCEPT !.rows = [i \in 1..Len(df.rows) |->
            [df.rows[i] EXCEPT !.cells[ColIdx(df, c)] = values[i]]]]
    ELSE [cols |-> Append(df.cols, c),
          rows |-> [i \in 1..Len(df.rows) |->
            [df.rows[i] EXCEPT !.cells = Append(@, values[i])]]]

\* pd.to_datetime on one cell of text: an empty cell gives NaT, text that
\* is no date makes the conversion raise.
Parseable(text) == text \in {"2024-01-06 00:00", "2024-01-05 20:00", ""}
to_datetime(text) ==
    CASE text = "2024-01-06 00:00" -> Stamp(6, 0)
      [] text = "2024-01-05 20:00" -> Stamp(5, 20)
      [] OTHER -> NaT

\* df['timestamp'] = pd.to_datetime(df['timestamp'])
Dated(df) ==
    SetCol(df, "timestamp",
           [i \in 1..Len(df.rows) |-> to_datetime(Col(df, "timestamp")[i])])

\* The order of two timestamps; NaT compares false with everything.
StampLeq(a, b) ==
    /\ ~a.nat /\ ~b.nat
    /\ a.day * 24 + a.hour <= b.day * 24 + b.hour

\* sort_values('timestamp'): the rows in an order p that puts the timestamps
\* in ascending order and the missing ones last.  The sort is not stable, so
\* rows of equal timestamp may come in any order.
Perms(n) == {p \in [1..n -> 1..n] : \A i, j \in 1..n : i # j => p[i] # p[j]}
SortOrders(df) ==
    LET ts == Col(df, "timestamp") IN
    {p \in Perms(Len(df.rows)) :
        \A i \in 1..(Len(df.rows) - 1) :
            \/ ts[p[i + 1]].nat
            \/ StampLeq(ts[p[i]], ts[p[i + 1]])}
Reorder(df, p) == [df EXCEPT !.rows = [i \in 1..Len(df.rows) |-> df.rows[p[i]]]]

\* A faulty variant of sort_values: the rows stay in file order.
sort_values_skipped(df, p) == df

sort_values(df, p) == Reorder(df, p)

numeric_columns == <<"audience_count", "EngagementRate", "ConversionRate", "ForecastError">>

\* KNNImputer.fit_transform on one column: a missing value becomes the mean
\* of the values of its nearest donor rows.  A file of at most n_neighbors
\* rows has at most n_neighbors donors, so every row that has a value is one.
RECURSIVE SumNum(_, _)
SumNum(col, n) ==
    IF n = 0 THEN 0
    ELSE SumNum(col, n - 1) + (IF col[n].nan THEN 0 ELSE col[n].num)
Present(col) == {i \in 1..Len(col) : ~col[i].nan}
impute(col) ==
    [i \in 1..Len(col) |->
        IF col[i].nan
        THEN Rat(SumNum(col, Len(col)), Cardinality(Present(col)))
        ELSE col[i]]

\* Series.dt.hour / dayofweek / month (1 January 2024 is a Monday), and the
\* two flags derived from them.
hour(t) == IF t.nat THEN NaN ELSE Num(t.hour)
day_of_week(t) == IF t.nat THEN NaN ELSE Num((t.day + 6) % 7)
month(t) == IF t.nat THEN NaN ELSE Num(1)
is_weekend(t) == IF ~t.nat /\ (t.day + 6) % 7 \in {5, 6} THEN 1 ELSE 0
is_prime_time(t) == IF ~t.nat /\ t.hour >= 19 /\ t.hour <= 22 THEN 1 ELSE 0

RECURSIVE ImputeAll(_, _)
ImputeAll(df, k) ==
    IF k = 0 THEN df
    ELSE LET d == ImputeAll(df, k - 1)
             c == numeric_columns[k]
         IN SetCol(d, c, impute(Col(d, c)))

add_time_features(df) ==
    LET ts == Col(df, "timestamp")
        n == Len(df.rows)
        d1 == SetCol(df, "hour", [i \in 1..n |-> hour(ts[i])])
        d2 == SetCol(d1, "day_of_week", [i \in 1..n |-> day_of_week(ts[i])])
        d3 == SetCol(d2, "month", [i \in 1..n |-> month(ts[i])])
        d4 == SetCol(d3, "is_weekend", [i \in 1..n |-> is_weekend(ts[i])])
    IN SetCol(d4, "is_prime_time", [i \in 1..n |-> is_prime_time(ts[i])])

\* preprocess_data, with p the order the sort produces.  The conversion of
\* the timestamp column is an assignment to the caller's frame, so it stays
\* when a later statement raises.
preprocess_data(df, p) ==
    LET texts == Col(df, "timestamp") IN
    IF \E i \in 1..Len(df.rows) : ~Parseable(texts[i])
    THEN [raised |-> TRUE, err |-> "to_datetime", df |-> df]
    ELSE
    LET dated == Dated(df)
        sorted == sort_values(dated, p)
    IN
    IF \E k \in 1..Len(numeric_columns) : numeric_columns[k] \notin Range(df.cols)
    THEN [raised |-> TRUE, err |-> "KeyError", df |-> dated]
    ELSE IF Len(df.rows) = 0
    THEN \* the imputer refuses an array of no samples
         [raised |-> TRUE, err |-> "ValueError", df |-> dated]
    ELSE IF \E k \in 1..Len(numeric_columns) :
               Present(Col(sorted, numeric_columns[k])) = {}
    THEN \* the imputer drops a column of no values: the assignment no longer fits
         [raised |-> TRUE, err |-> "ValueError", df |-> dated]
    ELSE [raised |-> FALSE, err |-> "",
          df |-> add_time_features(ImputeAll(sorted, Len(numeric_columns)))]

\* The pipeline of app.py, lines 66-67.  stage.at is the step reached,
\* stage.err the exception that ended the run ("" while there is none), and
\* stage.input the parsed file the run started from.
InitLoad ==
    /\ \E h \in Headers, picks \in RowPicks :
          /\ Len(picks) <= n_neighbors
          /\ table = ParsedFile(h, picks)
          /\ stage = [at |-> "parsed", err |-> "", input |-> ParsedFile(h, picks)]
    /\ model = NoModel
    /\ model_type = NoType
    /\ result = Returned("none", NoType, 0, FALSE, <<>>)
    /\ since_ok = "never"
    /\ last_ok = NoModel
    /\ calls = 0
    /\ fin = <<>> /\ fout = <<>>
    /\ actual = <<>> /\ predicted = <<>> /\ as_series = FALSE /\ metrics = <<>>
    /\ modeling_df = <<>> /\ ui = <<>>
    /\ featured = <<>> /\ target = [given |-> FALSE, name |-> ""] /\ prepared = <<>>

LoadData ==
    /\ stage.at = "parsed"
    /\ LET r == load_data(table) IN
        /\ table' = r.df
        /\ stage' = [stage EXCEPT !.at = IF r.raised THEN "load_data failed" ELSE "loaded",
                                  !.err = r.err]
    /\ UNCHANGED <<engineVars, featVars, metricVars, e2eVars, prepVars>>

PreprocessData ==
    /\ stage.at = "loaded"
    /\ \E p \in (IF \A i \in 1..Len(table.rows) : Parseable(Col(table, "timestamp")[i])
                 THEN SortOrders(Dated(table))
                 ELSE {<<>>}) :
          LET r == preprocess_data(table, p) IN
          /\ table' = r.df
          /\ stage' = [stage EXCEPT
                         !.at = IF r.raised THEN "preprocess_data failed"
                                ELSE "preprocessed",
                         !.err = r.err]
    /\ UNCHANGED <<engineVars, featVars, metricVars, e2eVars, prepVars>>

(***************************************************************************)
(* Feature engineer: src/src/data_processor.py                             *)
(***************************************************************************)

\* Bound: the number of rows of a table handed to engineer_features.
MaxSeries == 8

\* rolling(7, min_periods=1)
window == 7
min_periods == 1

Platforms == {"Mobile", "Web"}
Counts == {3, 5}

\* A preprocessed row, as far as engineer_features reads it.
FeatRow(pf, a) ==
    [platform |-> pf, audience_count |-> a, EngagementRate |-> 2, ConversionRate |-> 3]
FeatTables ==
    UNION {[1..n -> {FeatRow(pf, a) : pf \in Platforms, a \in Counts}] : n \in 1..MaxSeries}

\* The positions of the rows of row i's platform group that lie in the
\* window ending at row i: the row itself and up to window - 1 rows of the
\* group before it.
GroupBefore(df, i) == {j \in 1..i : df[j].platform = df[i].platform}
Window(df, i) ==
    {j \in GroupBefore(df, i) :
        Cardinality({k \in GroupBefore(df, i) : k > j}) < window}

RECURSIVE SumOver(_, _, _)
SumOver(df, S, sq) ==
    IF S = {} THEN 0
    ELSE LET j == CHOOSE x \in S : TRUE
             a == df[j].audience_count
         IN (IF sq THEN a * a ELSE a) + SumOver(df, S \ {j}, sq)

\* rolling(...).mean(): the mean of the window, NaN below min_periods samples.
rolling_mean(df, i) ==
    LET W == Window(df, i) IN
    IF Cardinality(W) < min_periods THEN NaN
    ELSE Rat(SumOver(df, W, FALSE), Cardinality(W))

\* rolling(...).std(): the sample standard deviation (ddof = 1) of the
\* window, as the variance under the root: NaN below min_periods samples and
\* for a window of one sample, whose n - 1 is 0.
rolling_std(df, i) ==
    LET W == Window(df, i)
        n == Cardinality(W)
    IN IF n < min_periods \/ n < 2 THEN NaN
       ELSE Rat(n * SumOver(df, W, TRUE) - SumOver(df, W, FALSE) * SumOver(df, W, FALSE),
                n * (n - 1))

\* pd.Categorical(...).codes: the rank of the platform among the platforms
\* present, in alphabetical order, counted from 0.
Alphabetical == <<"Mobile", "Web">>
Rank(pf) == CHOOSE k \in 1..Len(Alphabetical) : Alphabetical[k] = pf
platform_code(df, pf) ==
    Cardinality({q \in {df[j].platform : j \in 1..Len(df)} : Rank(q) < Rank(pf)})

engineer_features(df) ==
    [i \in 1..Len(df) |->
        [platform |-> df[i].platform,
         audience_count |-> df[i].audience_count,
         EngagementRate |-> df[i].EngagementRate,
         ConversionRate |-> df[i].ConversionRate,
         audience_7day_mean |-> rolling_mean(df, i),
         audience_7day_std |-> rolling_std(df, i),
         engagement_score |-> df[i].EngagementRate * df[i].ConversionRate,
         platform_encoded |-> platform_code(df, df[i].platform)]]

InitFeat ==
    /\ fin \in FeatTables /\ fout = <<>>
    /\ model = NoModel
    /\ model_type = NoType
    /\ result = Returned("none", NoType, 0, FALSE, <<>>)
    /\ since_ok = "never"
    /\ last_ok = NoModel
    /\ calls = 0
    /\ table = <<>> /\ stage = "idle"
    /\ actual = <<>> /\ predicted = <<>> /\ as_series = FALSE /\ metrics = <<>>
    /\ modeling_df = <<>> /\ ui = <<>>
    /\ featured = <<>> /\ target = [given |-> FALSE, name |-> ""] /\ prepared = <<>>

EngineerFeatures ==
    /\ fout = <<>>
    /\ fout' = engineer_features(fin)
    /\ UNCHANGED <<fin, engineVars, loadVars, metricVars, e2eVars, prepVars>>

(***************************************************************************)
(* Metrics: src/src/time_series.py, calculate_metrics                      *)
(***************************************************************************)

\* Bound: the length of the arrays handed to calculate_metrics.
MaxLen == 3

Values == {-2, 0, 1, 3}
Arrays == UNION {[1..n -> Values] : n \in 1..MaxLen}

Abs(x) == IF x < 0 THEN -x ELSE x

\* A metric: the root-th root of num / den, or NaN, or infinity.
Metric(num, den, root) == [kind |-> "num", num |-> num, den |-> den, root |-> root]
MetricNaN == [kind |-> "nan", num |-> 0, den |-> 1, root |-> 1]
MetricInf == [kind |-> "inf", num |-> 0, den |-> 1, root |-> 1]

RECURSIVE Sum(_, _)
Sum(f, n) == IF n = 0 THEN 0 ELSE Sum(f, n - 1) + f[n]
RECURSIVE Prod(_, _)
Prod(f, n) == IF n = 0 THEN 1 ELSE Prod(f, n - 1) * f[n]

\* np.sqrt(mean_squared_error(actual, predicted))
rmse(a, p) ==
    Metric(Sum([i \in 1..Len(a) |-> (a[i] - p[i]) * (a[i] - p[i])], Len(a)), Len(a), 2)

\* mean_absolute_error(actual, predicted)
mae(a, p) == Metric(Sum([i \in 1..Len(a) |-> Abs(a[i] - p[i])], Len(a)), Len(a), 1)

\* np.mean(np.abs((actual - predicted) / actual)) * 100.  The division is
\* elementwise floating-point division: 0 / 0 is NaN and x / 0 is infinite.
\* np.mean of a numpy array is NaN as soon as one element is; of a pandas
\* Series it is the mean of the elements that are not NaN.
mape(a, p, series) ==
    LET n == Len(a)
        nans == {i \in 1..n : a[i] = 0 /\ a[i] - p[i] = 0}
        infs == {i \in 1..n : a[i] = 0 /\ a[i] - p[i] # 0}
        kept == (1..n) \ nans
        den == Prod([i \in 1..n |-> IF a[i] = 0 THEN 1 ELSE Abs(a[i])], n)
        terms == [i \in 1..n |->
                    IF a[i] = 0 THEN 0 ELSE Abs(a[i] - p[i]) * (den \div Abs(a[i]))]
    IN IF nans # {} /\ ~series THEN MetricNaN
       ELSE IF kept = {} THEN MetricNaN
       ELSE IF infs # {} THEN MetricInf
       ELSE Metric(100 * Sum(terms, n), den * Cardinality(kept), 1)

\* A faulty variant of r2_score: the quotient is computed whatever the denominator.
r2_score_plain_quotient(a, p) ==
    LET n == Len(a)
        ssres == Sum([i \in 1..n |-> (a[i] - p[i]) * (a[i] - p[i])], n)
        nsstot == n * Sum([i \in 1..n |-> a[i] * a[i]], n) - Sum(a, n) * Sum(a, n)
    IN IF n < 2 \/ nsstot = 0 THEN MetricNaN
       ELSE Metric(nsstot - n * ssres, nsstot, 1)

\* r2_score(actual, predicted): 1 - SSres / SStot, with SStot taken n-fold to
\* stay in the integers.  It is NaN for fewer than two samples; when SStot is
\* 0 it is 1 for a perfect prediction and 0 otherwise.
r2_score(a, p) ==
    LET n == Len(a)
        ssres == Sum([i \in 1..n |-> (a[i] - p[i]) * (a[i] - p[i])], n)
        nsstot == n * Sum([i \in 1..n |-> a[i] * a[i]], n) - Sum(a, n) * Sum(a, n)
    IN IF n < 2 THEN MetricNaN
       ELSE IF nsstot # 0 /\ ssres # 0 THEN Metric(nsstot - n * ssres, nsstot, 1)
       ELSE IF ssres # 0 THEN Metric(0, 1, 1)
       ELSE Metric(1, 1, 1)

calculate_metrics(a, p, series) ==
    [RMSE |-> rmse(a, p), MAE |-> mae(a, p), MAPE |-> mape(a, p, series),
     R2 |-> r2_score(a, p)]

InitMetrics ==
    /\ actual \in Arrays
    /\ predicted \in {p \in Arrays : Len(p) = Len(actual)}
    /\ as_series \in BOOLEAN
    /\ metrics = <<>>
    /\ model = NoModel
    /\ model_type = NoType
    /\ result = Returned("none", NoType, 0, FALSE, <<>>)
    /\ since_ok = "never"
    /\ last_ok = NoModel
    /\ calls = 0
    /\ table = <<>> /\ stage = "idle"
    /\ fin = <<>> /\ fout = <<>>
    /\ modeling_df = <<>> /\ ui = <<>>
    /\ featured = <<>> /\ target = [given |-> FALSE, name |-> ""] /\ prepared = <<>>

CalculateMetrics ==
    /\ metrics = <<>>
    /\ metrics' = calculate_metrics(actual, predicted, as_series)
    /\ UNCHANGED <<actual, predicted, as_series, engineVars, loadVars, featVars, e2eVars,
                   prepVars>>

(***************************************************************************)
(* Dashboard: src/app.py, the Generate Forecast step                       *)
(***************************************************************************)

\* Bound: the number of rows of the scenario's input (100 daily rows).
ScenarioRows == 100

\* st.slider("Forecast Horizon (Days)", min_value=7, max_value=90, value=30)
slider_min == 7
slider_max == 90
Selectable == {"ARIMA", "Prophet", "SARIMA"}

\* The modeling frame of a script run: its index (day numbers, ascending) and
\* what is wrong with its series, if anything.  The index is a run of
\* consecutive days, or has one day missing after its first row.
DayIndex(n, first, gap) ==
    [i \in 1..n |-> IF gap /\ i > 1 THEN first + i ELSE first + i - 1]
ModelingFrames ==
    {[index |-> DayIndex(n, first, gap), defect |-> d] :
        n \in {2, 3, ScenarioRows}, first \in {1}, gap \in BOOLEAN, d \in Defects}

\* Whether a daily frequency can be inferred from the index: three or more
\* timestamps, each one day after the one before.
Daily(index) ==
    /\ Len(index) >= 3
    /\ \A i \in 1..(Len(index) - 1) : index[i + 1] = index[i] + 1

\* The frame as train_model receives it.
FrameOf(mdf) ==
    [nobs |-> Len(mdf.index), last |-> mdf.index[Len(mdf.index)],
     daily |-> Daily(mdf.index), defect |-> mdf.defect]

\* pd.date_range(start=start, periods=periods): consecutive days.
date_range(start, periods) == [i \in 1..periods |-> start + i - 1]

\* A faulty variant of forecast_start: the range starts on the last day itself.
forecast_start_same_day(index) == index[Len(index)]

\* modeling_df.index[-1] + timedelta(days=1)
forecast_start(index) == index[Len(index)] + 1

\* pd.DataFrame({'timestamp': <DatetimeIndex>, 'forecast': <Series>}): the
\* frame takes the index of the Series; the DatetimeIndex is a plain array
\* that must have that length and is laid out by position; the Series is
\* aligned to the frame's index by label, a label it lacks giving NaN.
Label(pt) == [kind |-> pt.kind, v |-> pt.v]
Aligned(series, label) ==
    IF \E j \in 1..Len(series) : Label(series[j]) = label
    THEN LET j == CHOOSE k \in 1..Len(series) : Label(series[k]) = label
         IN [empty |-> FALSE, step |-> series[j].step, by |-> series[j].by]
    ELSE [empty |-> TRUE, step |-> 0, by |-> 0]
DataFrame(timestamps, series) ==
    IF Len(timestamps) # Len(series)
    THEN [raised |-> TRUE, rows |-> <<>>]
    ELSE [raised |-> FALSE,
          rows |-> [i \in 1..Len(series) |->
                      [index |-> Label(series[i]),
                       timestamp |-> timestamps[i],
                       forecast |-> Aligned(series, Label(series[i]))]]]

\* forecast_df.to_csv(index=False): the header and one line per row, the
\* index left out; a NaN is written as an empty field.
to_csv(rows) ==
    [header |-> <<"timestamp", "forecast">>,
     lines |-> [i \in 1..Len(rows) |->
                  [timestamp |-> rows[i].timestamp, forecast |-> rows[i].forecast]]]

NoCsv == [header |-> <<>>, lines |-> <<>>]
Page(status, mt, periods, metricsOf, csv) ==
    [status |-> status, model_type |-> mt, periods |-> periods,
     chart |-> status = "done", summary |-> status = "done",
     metrics_of |-> metricsOf, csv |-> csv]

\* The body of `if st.button("Generate Forecast")`, on the engine e created
\* by this script run.  Any exception ends in the st.error of the enclosing
\* try.  metrics_of is the fit whose in-sample values the metrics compare
\* with audience_count; a Prophet object has no fittedvalues.
generate_forecast(mdf, mt, periods) ==
    LET t == train_model(NoModel, FrameOf(mdf), mt, 1)
        f == get_forecast(t.model, t.model_type, periods)
        df == DataFrame(date_range(forecast_start(mdf.index), periods), f.value)
    IN IF t.out.status = "raised"
       THEN [model |-> t.model, model_type |-> t.model_type, out |-> t.out,
             page |-> Page("error", mt, periods, 0, NoCsv)]
       ELSE IF f.status = "raised" \/ f.none
                \/ t.model.kind = "Prophet" \/ df.raised
       THEN [model |-> t.model, model_type |-> t.model_type, out |-> f,
             page |-> Page("error", mt, periods, 0, NoCsv)]
       ELSE [model |-> t.model, model_type |-> t.model_type, out |-> f,
             page |-> Page("done", mt, periods, t.model.id, to_csv(df.rows))]

InitE2E ==
    /\ modeling_df \in ModelingFrames
    /\ ui = Page("idle", NoType, 0, 0, NoCsv)
    /\ model = NoModel
    /\ model_type = NoType
    /\ result = Returned("none", NoType, 0, FALSE, <<>>)
    /\ since_ok = "never"
    /\ last_ok = NoModel
    /\ calls = 0
    /\ table = <<>> /\ stage = "idle"
    /\ fin = <<>> /\ fout = <<>>
    /\ actual = <<>> /\ predicted = <<>> /\ as_series = FALSE /\ metrics = <<>>
    /\ featured = <<>> /\ target = [given |-> FALSE, name |-> ""] /\ prepared = <<>>

\* One press of the button.  Streamlit runs the script anew on every press,
\* with a new engine (app.py line 54), so a press starts from the idle page.
GenerateForecast ==
    /\ ui.status = "idle"
    /\ \E mt \in Selectable, periods \in slider_min..slider_max :
          LET g == generate_forecast(modeling_df, mt, periods) IN
          /\ model' = g.model
          /\ model_type' = g.model_type
          /\ result' = g.out
          /\ ui' = g.page
    /\ UNCHANGED <<modeling_df, since_ok, last_ok, calls>>
    /\ UNCHANGED <<loadVars, featVars, metricVars, prepVars>>

(***************************************************************************)
(* Modeling frame: src/src/data_processor.py, prepare_for_modeling         *)
(***************************************************************************)

\* Bound: the number of rows of a featured table handed to
\* prepare_for_modeling.
MaxPrepRows == 3

\* The target_platform argument: not given (None), or a string, which may be
\* empty or name a platform no row has.
NoTarget == [given |-> FALSE, name |-> ""]
Targets == {NoTarget} \cup {[given |-> TRUE, name |-> n] : n \in {"", "Mobile", "Web", "TV"}}

\* A row of the featured table: a row e returned by engineer_features with
\* the timestamp t and the calendar columns preprocess_data gave it.
FeaturedRow(e, t) ==
    [timestamp |-> t,
     platform |-> e.platform,
     audience_count |-> e.audience_count,
     EngagementRate |-> e.EngagementRate,
     ConversionRate |-> e.ConversionRate,
     hour |-> hour(t),
     day_of_week |-> day_of_week(t),
     month |-> month(t),
     is_weekend |-> is_weekend(t),
     is_prime_time |-> is_prime_time(t),
     audience_7day_mean |-> e.audience_7day_mean,
     audience_7day_std |-> e.audience_7day_std,
     engagement_score |-> e.engagement_score,
     platform_encoded |-> e.platform_encoded]

\* The featured tables: up to MaxPrepRows rows on consecutive days from
\* Friday 5 January 2024, all at midnight or all at 20:00.
PrepBases ==
    UNION {[1..n -> {FeatRow(pf, a) : pf \in Platforms, a \in Counts}] : n \in 0..MaxPrepRows}
FeaturedTables ==
    {[i \in 1..Len(b) |-> FeaturedRow(engineer_features(b)[i], Stamp(4 + i, h))] :
        b \in PrepBases, h \in {0, 20}}

\* The columns selected for the modeling frame, timestamp first.
selected_columns ==
    <<"timestamp", "audience_count", "is_weekend", "is_prime_time",
      "audience_7day_mean", "audience_7day_std", "engagement_score">>

\* `if target_platform:` is true for a string that is not empty.
Truthy(t) == t.given /\ t.name # ""

\* df[selected_columns] followed by set_index('timestamp'): the timestamp
\* becomes the index of the row and leaves the columns.
ModelingRow(r) ==
    [index |-> r.timestamp,
     audience_count |-> r.audience_count,
     is_weekend |-> r.is_weekend,
     is_prime_time |-> r.is_prime_time,
     audience_7day_mean |-> r.audience_7day_mean,
     audience_7day_std |-> r.audience_7day_std,
     engagement_score |-> r.engagement_score]

ModelingFrame(kept) ==
    [raised |-> FALSE,
     index_name |-> selected_columns[1],
     columns |-> SelectSeq(selected_columns, LAMBDA c : c # selected_columns[1]),
     rows |-> [i \in 1..Len(kept) |-> ModelingRow(kept[i])]]

\* A faulty variant of prepare_for_modeling: the platform filter is left out.
prepare_for_modeling_unfiltered(df, t) == ModelingFrame(df)

\* prepare_for_modeling
prepare_for_modeling(df, t) ==
    LET kept == IF Truthy(t)
                THEN SelectSeq(df, LAMBDA r : r.platform = t.name)
                ELSE df
    IN ModelingFrame(kept)

InitPrep ==
    /\ featured \in FeaturedTables
    /\ target = NoTarget
    /\ prepared = <<>>
    /\ model = NoModel
    /\ model_type = NoType
    /\ result = Returned("none", NoType, 0, FALSE, <<>>)
    /\ since_ok = "never"
    /\ last_ok = NoModel
    /\ calls = 0
    /\ table = <<>> /\ stage = "idle"
    /\ fin = <<>> /\ fout = <<>>
    /\ actual = <<>> /\ predicted = <<>> /\ as_series = FALSE /\ metrics = <<>>
    /\ modeling_df = <<>> /\ ui = <<>>

PrepareForModeling ==
    /\ prepared = <<>>
    /\ \E t \in Targets :
          /\ target' = t
          /\ prepared' = prepare_for_modeling(featured, t)
    /\ UNCHANGED <<featured, engineVars, loadVars, featVars, metricVars, e2eVars>>

(***************************************************************************)
(* Specifications: each Init also gives the variables of the other         *)
(* components their initial values.                                        *)
(***************************************************************************)

NextEngine == TrainModel \/ GetForecast
SpecEngine == InitEngine /\ [][NextEngine]_vars

NextFeat == EngineerFeatures
SpecFeat == InitFeat /\ [][NextFeat]_vars

NextMetrics == CalculateMetrics
SpecMetrics == InitMetrics /\ [][NextMetrics]_vars

NextE2E == GenerateForecast
SpecE2E == InitE2E /\ [][NextE2E]_vars

NextPrep == PrepareForModeling
SpecPrep == InitPrep /\ [][NextPrep]_vars

NextLoad == LoadData \/ PreprocessData
SpecLoad == InitLoad /\ [][NextLoad]_vars

(***************************************************************************)
(* Claims about the forecast engine                                        *)
(***************************************************************************)

\* C1: get_forecast fails with "Model not trained" whenever no train_model
\* call on the engine has completed successfully before it, also after
\* train_model calls that all failed (unsupported type, or a fit that raised).
C1_NotTrainedUntilFirstFit ==
    (result.op = "forecast" /\ since_ok = "never")
        => (result.status = "raised" /\ result.err = "Model not trained")

\* C2: once a train_model call has succeeded, get_forecast(periods=N) keeps
\* returning N values of the most recently successfully fitted model through
\* later get_forecast calls and train_model calls that fail with an
\* unsupported model type; it never returns None.
C2_StaysTrained ==
    (result.op = "forecast" /\ since_ok \in {"clean", "unsupported"})
        => /\ result.status = "ok"
           /\ ~result.none
           /\ Len(result.value) = result.periods
           /\ \A i \in 1..Len(result.value) : result.value[i].by = last_ok.id
           /\ model = last_ok
           /\ model_type = last_ok.kind

\* C3: when the last train_model call succeeded with a supported type,
\* get_forecast(periods=N), N in {1, 7, 30, 90}, returns exactly N values,
\* the steps 1..N past the training data in order; so for Prophet the
\* in-sample fitted rows are discarded and only the trailing N remain.
C3_ForecastLength ==
    (result.op = "forecast" /\ since_ok = "clean" /\ result.periods \in Horizons)
        => /\ result.status = "ok"
           /\ ~result.none
           /\ Len(result.value) = result.periods
           /\ \A i \in 1..Len(result.value) :
                 /\ result.value[i].step = i
                 /\ result.value[i].by = model.id

\* C3 witness: a fitted Prophet model has answered a 90-period request.
C3_Witness ==
    /\ result.op = "forecast" /\ since_ok = "clean" /\ result.periods = 90
    /\ model_type = "Prophet" /\ result.status = "ok"
    /\ Len(result.value) = 90

\* C4: train_model with a type other than ARIMA, SARIMA, Prophet raises the
\* unsupported-model error and leaves the held model handle as it was,
\* whatever the engine's state before the call.
C4_UnsupportedRejected ==
    [][(result'.op = "train" /\ result'.model_type \notin Supported)
          => /\ result'.status = "raised"
             /\ result'.err = "Unsupported model type"
             /\ model' = model]_vars

\* C4 witness: an unsupported type was rejected by an engine holding a
\* fitted model.
C4_Witness ==
    /\ result.op = "train" /\ result.model_type = "LSTM"
    /\ result.status = "raised" /\ model.fitted

(***************************************************************************)
(* Claims about the loader and the preprocessor                            *)
(***************************************************************************)

HasRequired(df) == \A i \in 1..Len(required_columns) : required_columns[i] \in Range(df.cols)
LacksNumeric(df) ==
    \E c \in {"EngagementRate", "ConversionRate", "ForecastError"} : c \notin Range(df.cols)

\* C5: load_data fails with a ValueError if and only if one of Date,
\* AudienceCount, Platform is missing from the parsed input; otherwise it
\* returns the table with exactly these three columns renamed to timestamp,
\* audience_count, platform, the other columns and every row unchanged.
C5_LoadData ==
    stage.at \in {"loaded", "load_data failed"} =>
        /\ (stage.at = "load_data failed") <=> ~HasRequired(stage.input)
        /\ stage.at = "load_data failed" => stage.err = "ValueError"
        /\ stage.at = "loaded" =>
              /\ Len(table.cols) = Len(stage.input.cols)
              /\ \A k \in 1..Len(table.cols) :
                    LET c == stage.input.cols[k] IN
                    /\ c = "Date" => table.cols[k] = "timestamp"
                    /\ c = "AudienceCount" => table.cols[k] = "audience_count"
                    /\ c = "Platform" => table.cols[k] = "platform"
                    /\ c \notin Range(required_columns) => table.cols[k] = c
              /\ table.rows = stage.input.rows

\* C5 witness: a file with the three columns, a column "date" and two rows
\* or more has been loaded.
C5_Witness ==
    /\ stage.at = "loaded"
    /\ "date" \in Range(table.cols) /\ "timestamp" \in Range(table.cols)
    /\ Len(table.rows) >= 2

\* C6: when the input has Date, AudienceCount and Platform but lacks one of
\* EngagementRate, ConversionRate, ForecastError, the run fails in load_data
\* with a schema error: it never gets past load_data.
C6_SchemaErrorAtLoad ==
    (HasRequired(stage.input) /\ LacksNumeric(stage.input))
        => stage.at \in {"parsed", "load_data failed"}

\* The timestamps of df do not decrease from one row to the next.
Ascending(df) ==
    \A i \in 1..(Len(df.rows) - 1) :
        StampLeq(Col(df, "timestamp")[i], Col(df, "timestamp")[i + 1])

\* df holds the rows of the input file, each once: the same index labels,
\* and under each label the timestamp of that row's Date cell and its
\* platform.
SameRows(df, input) ==
    /\ Len(df.rows) = Len(input.rows)
    /\ \A i \in 1..Len(input.rows) :
          \E j \in 1..Len(df.rows) :
              /\ df.rows[j].idx = input.rows[i].idx
              /\ Col(df, "timestamp")[j] = to_datetime(Col(input, "Date")[i])
              /\ Col(df, "platform")[j] = Col(input, "Platform")[i]

\* C10 as stated: for every input accepted by load_data, the table returned
\* by preprocess_data is in non-decreasing order of timestamp and holds the
\* same rows as the input.
C10_SortedForEveryInput ==
    stage.at = "preprocessed"
        => Ascending(table) /\ SameRows(table, stage.input)

\* C10 amended: the same, for the inputs whose Date cells all hold a date.
C10_SortedWhenDated ==
    (/\ stage.at = "preprocessed"
     /\ \A i \in 1..Len(stage.input.rows) : Col(stage.input, "Date")[i] # "")
        => Ascending(table) /\ SameRows(table, stage.input)

\* C10 witness: a file of three rows or more whose first two rows are out of
\* order has been preprocessed.
C10_Witness ==
    /\ stage.at = "preprocessed"
    /\ Len(stage.input.rows) >= 3
    /\ \A i \in 1..Len(stage.input.rows) : Col(stage.input, "Date")[i] # ""
    /\ Col(stage.input, "Date")[1] = "2024-01-06 00:00"
    /\ Col(stage.input, "Date")[2] = "2024-01-05 20:00"

(***************************************************************************)
(* Claims about the feature engineer and the metrics                       *)
(***************************************************************************)

\* C7: for a single-platform series whose audience_count is the same v in
\* every row, engineer_features gives audience_7day_mean = v and
\* audience_7day_std = 0 in every row, the first included; no row gets a
\* missing value.
C7_ConstantSeries ==
    (/\ fout # <<>>
     /\ \A i \in 1..Len(fin) :
           /\ fin[i].platform = fin[1].platform
           /\ fin[i].audience_count = fin[1].audience_count)
        => \A i \in 1..Len(fout) :
              /\ ~fout[i].audience_7day_mean.nan
              /\ fout[i].audience_7day_mean.num
                    = fin[1].audience_count * fout[i].audience_7day_mean.den
              /\ ~fout[i].audience_7day_std.nan
              /\ fout[i].audience_7day_std.num = 0

IsZero(m) == m.kind = "num" /\ m.num = 0
IsOne(m) == m.kind = "num" /\ m.num = m.den /\ m.root = 1
PerfectScores ==
    /\ IsZero(metrics.RMSE) /\ IsZero(metrics.MAE) /\ IsZero(metrics.MAPE)
    /\ IsOne(metrics.R2)

\* C8 as stated: calculate_metrics(actual, predicted) with predicted
\* identical to actual returns RMSE = 0, MAE = 0, MAPE = 0 and R2 = 1 for
\* every non-empty array of actual values, also one that contains a zero.
C8_PerfectFit ==
    (metrics # <<>> /\ predicted = actual /\ ~as_series) => PerfectScores

\* C8 amended: the same for every array of two or more actual values none of
\* which is zero (numpy arrays or pandas Series).
C8_PerfectFitNonZero ==
    (/\ metrics # <<>> /\ predicted = actual
     /\ Len(actual) >= 2
     /\ \A i \in 1..Len(actual) : actual[i] # 0)
        => PerfectScores

\* C8 witness: the metrics of an array of equal non-zero values against
\* itself have been computed.
C8_Witness ==
    /\ metrics # <<>> /\ predicted = actual /\ Len(actual) >= 2
    /\ \A i \in 1..Len(actual) : actual[i] = 3

(***************************************************************************)
(* Claims about the dashboard                                              *)
(***************************************************************************)

\* C9: after a forecast run with ARIMA the downloadable table has the
\* columns timestamp and forecast and exactly as many rows as the horizon
\* (30 rows for the scenario of 100 daily rows and horizon 30); its
\* timestamps are consecutive days, the first one the day after the last
\* timestamp of the modeling frame, and every row carries a forecast value.
C9_ForecastTable ==
    (ui.status = "done" /\ ui.model_type = "ARIMA") =>
        LET lines == ui.csv.lines IN
        /\ ui.csv.header = <<"timestamp", "forecast">>
        /\ Len(lines) = ui.periods
        /\ lines[1].timestamp = modeling_df.index[Len(modeling_df.index)] + 1
        /\ \A i \in 1..(Len(lines) - 1) : lines[i + 1].timestamp = lines[i].timestamp + 1
        /\ \A i \in 1..Len(lines) :
              /\ ~lines[i].forecast.empty
              /\ lines[i].forecast.step = i

\* C9 witness: the scenario itself, 100 daily rows, ARIMA, horizon 30.
C9_Witness ==
    /\ ui.status = "done" /\ ui.model_type = "ARIMA" /\ ui.periods = 30
    /\ Len(modeling_df.index) = ScenarioRows /\ Daily(modeling_df.index)
    /\ Len(ui.csv.lines) = 30

(***************************************************************************)
(* Claims about the modeling frame                                         *)
(***************************************************************************)

\* The frame has the six fixed columns, is indexed by timestamp, and holds
\* exactly the rows of the featured table at the positions in S, each with
\* the values it had there.
FrameOfRows(S) ==
    /\ ~prepared.raised
    /\ prepared.index_name = "timestamp"
    /\ prepared.columns =
          <<"audience_count", "is_weekend", "is_prime_time",
            "audience_7day_mean", "audience_7day_std", "engagement_score">>
    /\ Len(prepared.rows) = Cardinality(S)
    /\ \A i \in S :
          \E j \in 1..Len(prepared.rows) :
              /\ prepared.rows[j].index = featured[i].timestamp
              /\ prepared.rows[j].audience_count = featured[i].audience_count
              /\ prepared.rows[j].is_weekend = featured[i].is_weekend
              /\ prepared.rows[j].is_prime_time = featured[i].is_prime_time
              /\ prepared.rows[j].audience_7day_mean = featured[i].audience_7day_mean
              /\ prepared.rows[j].audience_7day_std = featured[i].audience_7day_std
              /\ prepared.rows[j].engagement_score = featured[i].engagement_score

RowsOf(name) == {i \in 1..Len(featured) : featured[i].platform = name}

\* C11 as stated: prepare_for_modeling does not raise; with a target
\* platform it returns the frame of exactly the rows of that platform, empty
\* when the platform matches no row, and with no platform given the frame of
\* every input row; the frame has the six fixed columns and is indexed by
\* timestamp.
C11_PrepareForModeling ==
    prepared # <<>> =>
        IF target.given THEN FrameOfRows(RowsOf(target.name))
        ELSE FrameOfRows(1..Len(featured))

\* C11 amended: the same for a target platform that is not the empty string
\* (an empty string counts as no platform given).
C11_PrepareForModelingNamed ==
    prepared # <<>> =>
        /\ (target.given /\ target.name # "") => FrameOfRows(RowsOf(target.name))
        /\ ~target.given => FrameOfRows(1..Len(featured))

\* C11 witness: a table of two rows or more has been prepared for a platform
\* that none of its rows has, and the frame is empty.
C11_Witness ==
    /\ prepared # <<>>
    /\ target.given /\ target.name = "TV"
    /\ Len(featured) >= 2
    /\ prepared.rows = <<>>

\* C12: in the Generate Forecast step, for every selectable model type a
\* successful train_model followed by get_forecast is followed by the
\* metrics of the trained model's in-sample fitted values; the step reaches
\* the forecast chart, the metrics summary and the download, and does not
\* end in the generic error message.
C12_EveryModelTypeCompletes ==
    (ui.status # "idle" /\ modeling_df.defect = "none") =>
        /\ ui.status = "done"
        /\ ui.chart /\ ui.summary
        /\ ui.metrics_of = model.id
        /\ Len(ui.csv.lines) = ui.periods

====
